---- MODULE Spec2Model ----
(***************************************************************************)
(* Model of src/src/app/page.tsx: the "Februar spare-challenge" page.      *)
(*                                                                         *)
(* Units.  Instants are whole hours since local midnight of 1 January of   *)
(* FirstYear (a Date's time value, at hour granularity, local time, no     *)
(* daylight-saving shift).  Money is in thousandths of a krone, so that    *)
(* the rounding to two decimals done by addEntry is visible.               *)
(***************************************************************************)
EXTENDS Integers, Sequences, FiniteSets

VARIABLES
    now,              \* the wall clock read by new Date()
    challengeMeta,    \* the ChallengeMeta computed by the last render
    budget,           \* useState(4500)
    entries,          \* useState<Entry[]>([])
    essentialAmount,  \* useState("")
    essentialNote,    \* useState("")
    skipAmount,       \* useState("")
    skipNote,         \* useState("")
    validation,       \* useState<string | null>(null)
    storage,          \* localStorage: the two slots of STORAGE_KEYS
    phase,            \* "initial" (first render done, effects pending), "mounted", "crashed"
    nextId,           \* number of ids handed out by crypto.randomUUID()
    advice,           \* useState("Henter motiverende raad...")
    quote,            \* useState("Henter inspirerende citat...")
    adviceLoading,    \* useState(false)
    quoteLoading,     \* useState(false)
    adviceRequest,    \* the fetch of fetchAdvice: "none", "in flight" or "unanswered"
    quoteRequest      \* the fetch of fetchQuote: "none", "in flight" or "unanswered"

vars == <<now, challengeMeta, budget, entries, essentialAmount, essentialNote,
          skipAmount, skipNote, validation, storage, phase, nextId,
          advice, quote, adviceLoading, quoteLoading, adviceRequest, quoteRequest>>

feedVars == <<advice, quote, adviceLoading, quoteLoading, adviceRequest, quoteRequest>>

ledgerVars == <<budget, entries, essentialAmount, essentialNote, skipAmount,
                skipNote, validation, storage, phase, nextId>>

----------------------------------------------------------------------------
(* Bounds of the model *)

FirstYear == 2023
NumYears == 3
MaxIds == 3
MaxAdvanceHours == 48

Years == FirstYear .. (FirstYear + NumYears - 1)
HoursOfDay == {0, 10, 23}

----------------------------------------------------------------------------
(* Calendar: what the Date constructor and getters compute *)

HoursPerDay == 24

IsLeap(y) == (y % 4 = 0 /\ y % 100 # 0) \/ y % 400 = 0

\* m is 0-based, as in Date
DaysInMonthOf(y, m) ==
    IF m = 1 THEN (IF IsLeap(y) THEN 29 ELSE 28)
    ELSE IF m \in {3, 5, 8, 10} THEN 30 ELSE 31

RECURSIVE DaysBeforeMonth(_, _)
DaysBeforeMonth(y, m) ==
    IF m = 0 THEN 0 ELSE DaysBeforeMonth(y, m - 1) + DaysInMonthOf(y, m - 1)

RECURSIVE DaysBeforeYear(_)
DaysBeforeYear(y) ==
    IF y <= FirstYear THEN 0
    ELSE DaysBeforeYear(y - 1) + (IF IsLeap(y - 1) THEN 366 ELSE 365)

\* new Date(y, m, d): local midnight; day 0 of a month is the last day of the
\* month before it (the constructor normalises the overflow)
NewDate(y, m, d) == (DaysBeforeYear(y) + DaysBeforeMonth(y, m) + d - 1) * HoursPerDay

\* new Date(y, m, d) with a time of day, used to enumerate the clock
InstantAt(y, m, d, h) == NewDate(y, m, d) + h

\* Date.prototype.getFullYear
getFullYear(t) ==
    CHOOSE y \in FirstYear .. (FirstYear + NumYears + 1) :
        NewDate(y, 0, 1) <= t /\ t < NewDate(y + 1, 0, 1)

\* Date.prototype.getMonth
getMonth(t) ==
    LET y == getFullYear(t) IN
    CHOOSE m \in 0 .. 11 :
        NewDate(y, m, 1) <= t /\ t < NewDate(y, m, 1) + DaysInMonthOf(y, m) * HoursPerDay

\* Date.prototype.getDate
getDate(t) ==
    LET y == getFullYear(t)
        m == getMonth(t)
    IN  ((t - NewDate(y, m, 1)) \div HoursPerDay) + 1

\* Math.floor(a / b) for b > 0
FloorDiv(a, b) == a \div b

\* Math.ceil(a / b) for b > 0
CeilDiv(a, b) == IF a % b = 0 THEN a \div b ELSE (a \div b) + 1

MaxInt(a, b) == IF a >= b THEN a ELSE b

\* the instants the clock is drawn from: every calendar day of Years, at HoursOfDay
Instants ==
    UNION { { InstantAt(y, m, d, h) : d \in 1 .. DaysInMonthOf(y, m), h \in HoursOfDay } :
            y \in Years, m \in 0 .. 11 }

----------------------------------------------------------------------------
(* Challenge logic *)

\* a window whose year never rolls forward: the target year is the clock's year
getChallengeMetaThisYear(t) ==
    LET targetYear == getFullYear(t)
        start == NewDate(targetYear, 1, 1)
        end == NewDate(targetYear, 2, 0)
        isActive == t >= start /\ t <= end
        dayOfMonth == IF isActive THEN getDate(t) ELSE 0
        daysInMonth == getDate(end)
        daysLeft == IF isActive THEN daysInMonth - dayOfMonth ELSE daysInMonth
        daysUntilStart ==
            IF ~isActive /\ t < start
            THEN MaxInt(0, CeilDiv(start - t, HoursPerDay))
            ELSE 0
    IN  [isActive |-> isActive, dayOfMonth |-> dayOfMonth, daysLeft |-> daysLeft,
         daysInMonth |-> daysInMonth, daysUntilStart |-> daysUntilStart,
         year |-> targetYear]

getChallengeMeta(t) ==
    LET thisYearEnd == NewDate(getFullYear(t), 2, 0)
        targetYear == IF t <= thisYearEnd THEN getFullYear(t) ELSE getFullYear(t) + 1
        start == NewDate(targetYear, 1, 1)
        end == NewDate(targetYear, 2, 0)
        isActive == t >= start /\ t <= end
        dayOfMonth == IF isActive THEN getDate(t) ELSE 0
        daysInMonth == getDate(end)
        daysLeft == IF isActive THEN daysInMonth - dayOfMonth ELSE daysInMonth
        daysUntilStart ==
            IF ~isActive /\ t < start
            THEN MaxInt(0, CeilDiv(start - t, HoursPerDay))
            ELSE 0
    IN  [isActive |-> isActive, dayOfMonth |-> dayOfMonth, daysLeft |-> daysLeft,
         daysInMonth |-> daysInMonth, daysUntilStart |-> daysUntilStart,
         year |-> targetYear]

\* the status shown in the header
headerStatus(meta) ==
    IF meta.isActive THEN "Dag"
    ELSE IF meta.daysUntilStart > 0 THEN "Starter om"
    ELSE "Challenge afsluttet"

----------------------------------------------------------------------------
(* JavaScript numbers and strings.  A string is a sequence of one-character *)
(* strings.  A number is [k, v]: k = "num" with v in thousandths, k = "inf" *)
(* with v the sign, k = "nan", or k = "null" for a JSON null read where a   *)
(* number is expected (it converts to 0 in arithmetic).                     *)

Num(v) == [k |-> "num", v |-> v]
Inf(sign) == [k |-> "inf", v |-> sign]
NaN == [k |-> "nan", v |-> 0]
Null == [k |-> "null", v |-> 0]

Kr(n) == Num(n * 1000)

DigitChars == <<"0", "1", "2", "3", "4", "5", "6", "7", "8", "9">>
IsDigit(c) == \E i \in 1 .. 10 : DigitChars[i] = c
DigitVal(c) == (CHOOSE i \in 1 .. 10 : DigitChars[i] = c) - 1
WhiteSpace == {" "}
InfinityChars == <<"I", "n", "f", "i", "n", "i", "t", "y">>

RECURSIVE TrimStart(_)
TrimStart(s) ==
    IF s # <<>> /\ Head(s) \in WhiteSpace THEN TrimStart(Tail(s)) ELSE s

RECURSIVE TrimEnd(_)
TrimEnd(s) ==
    IF s # <<>> /\ s[Len(s)] \in WhiteSpace
    THEN TrimEnd(SubSeq(s, 1, Len(s) - 1)) ELSE s

\* a trim that removes nothing
trimNothing(s) == s

\* String.prototype.trim
trim(s) == TrimEnd(TrimStart(s))

RECURSIVE AllDigits(_)
AllDigits(s) == s = <<>> \/ (IsDigit(Head(s)) /\ AllDigits(Tail(s)))

RECURSIVE DigitsValue(_)
DigitsValue(s) ==
    IF s = <<>> THEN 0
    ELSE DigitsValue(SubSeq(s, 1, Len(s) - 1)) * 10 + DigitVal(s[Len(s)])

\* position of the first "." of s, or Len(s) + 1
DotAt(s) ==
    IF \E i \in 1 .. Len(s) : s[i] = "."
    THEN CHOOSE i \in 1 .. Len(s) : s[i] = "." /\ \A j \in 1 .. (i - 1) : s[j] # "."
    ELSE Len(s) + 1

IntPart(s) == SubSeq(s, 1, DotAt(s) - 1)
FracPart(s) == SubSeq(s, DotAt(s) + 1, Len(s))

\* an unsigned decimal literal: digits, digits.digits, digits. or .digits
IsDecimal(s) ==
    /\ AllDigits(IntPart(s))
    /\ AllDigits(FracPart(s))
    /\ Len(IntPart(s)) + Len(FracPart(s)) > 0

\* value of an unsigned decimal literal, in thousandths (digits after the third
\* decimal are below the model's resolution and are dropped)
DecimalValue(s) ==
    LET f == FracPart(s)
        f3 == SubSeq(f \o <<"0", "0", "0">>, 1, 3)
    IN  DigitsValue(IntPart(s)) * 1000 + DigitsValue(f3)

\* Number(string): empty or blank is 0, a signed decimal literal or Infinity is
\* its value, anything else is NaN (exponent and radix literals are not modelled)
ToNumber(s) ==
    LET t == trim(s)
        signed == t # <<>> /\ Head(t) \in {"-", "+"}
        sign == IF t # <<>> /\ Head(t) = "-" THEN -1 ELSE 1
        body == IF signed THEN Tail(t) ELSE t
    IN  IF t = <<>> THEN Num(0)
        ELSE IF body = InfinityChars THEN Inf(sign)
        ELSE IF IsDecimal(body) THEN Num(sign * DecimalValue(body))
        ELSE NaN

RECURSIVE DigitsOf(_)
DigitsOf(n) ==
    IF n < 10 THEN <<DigitChars[n + 1]>>
    ELSE DigitsOf(n \div 10) \o <<DigitChars[(n % 10) + 1]>>

Abs(v) == IF v < 0 THEN -v ELSE v
SignChars(v) == IF v < 0 THEN <<"-">> ELSE <<>>

\* Number.prototype.toFixed(2): the value rounded to hundredths (half up; the
\* amounts the model enters never lie on a tie), with two decimals
toFixed2(n) ==
    IF n.k = "nan" THEN <<"N", "a", "N">>
    ELSE IF n.k = "inf" THEN SignChars(n.v) \o InfinityChars
    ELSE LET cents == (Abs(n.v) + 5) \div 10 IN
         (IF cents = 0 THEN <<>> ELSE SignChars(n.v))
           \o DigitsOf(cents \div 100)
           \o <<".", DigitChars[((cents \div 10) % 10) + 1], DigitChars[(cents % 10) + 1]>>

RECURSIVE StripZeros(_)
StripZeros(s) ==
    IF s # <<>> /\ s[Len(s)] = "0" THEN StripZeros(SubSeq(s, 1, Len(s) - 1)) ELSE s

\* String(number)
NumberToString(n) ==
    IF n.k = "nan" THEN <<"N", "a", "N">>
    ELSE IF n.k = "inf" THEN SignChars(n.v) \o InfinityChars
    ELSE IF n.k = "null" THEN <<"n", "u", "l", "l">>
    ELSE LET a == Abs(n.v)
             f == StripZeros(<<DigitChars[((a \div 100) % 10) + 1],
                               DigitChars[((a \div 10) % 10) + 1],
                               DigitChars[(a % 10) + 1]>>)
         IN  SignChars(n.v) \o DigitsOf(a \div 1000)
               \o (IF f = <<>> THEN <<>> ELSE <<".">> \o f)

\* ToNumber applied to an operand of an arithmetic operator
Operand(n) == IF n.k = "null" THEN Num(0) ELSE n

\* a + b
Add(x, y) ==
    LET a == Operand(x)
        b == Operand(y)
    IN  IF a.k = "nan" \/ b.k = "nan" THEN NaN
        ELSE IF a.k = "inf" /\ b.k = "inf" THEN (IF a.v = b.v THEN a ELSE NaN)
        ELSE IF a.k = "inf" THEN a
        ELSE IF b.k = "inf" THEN b
        ELSE Num(a.v + b.v)

Neg(x) ==
    LET a == Operand(x) IN
    IF a.k = "nan" THEN NaN ELSE IF a.k = "inf" THEN Inf(-a.v) ELSE Num(-a.v)

\* a - b
Sub(x, y) == Add(x, Neg(y))

\* a < b (false when either is NaN)
Less(x, y) ==
    LET a == Operand(x)
        b == Operand(y)
    IN  /\ a.k # "nan"
        /\ b.k # "nan"
        /\ IF a.k = "inf" THEN a.v = -1 /\ b # a
           ELSE IF b.k = "inf" THEN b.v = 1
           ELSE a.v < b.v

\* a <= b (false when either is NaN)
LessEq(x, y) ==
    /\ Operand(x).k # "nan"
    /\ Operand(y).k # "nan"
    /\ (Less(x, y) \/ Operand(x) = Operand(y))

\* Math.max(a, b)
MathMax(x, y) ==
    LET a == Operand(x)
        b == Operand(y)
    IN  IF a.k = "nan" \/ b.k = "nan" THEN NaN
        ELSE IF Less(a, b) THEN b ELSE a

\* !n
Falsy(n) == n.k \in {"nan", "null"} \/ (n.k = "num" /\ n.v = 0)

----------------------------------------------------------------------------
(* Double-precision arithmetic of budget / daysInMonth * activeDay.  A      *)
(* double is [bits, exp]: Precision binary digits, most significant first,  *)
(* the first of them 1 and of weight 2^exp.  Results are rounded to nearest, *)
(* ties to even, as IEEE 754 prescribes.                                    *)

Precision == 53

\* digit strings are cut into pieces of LimbBits digits, each small enough to be
\* multiplied by a number below 2^15 without leaving the integers of the model
LimbBits == 16

Zeros(k) == [i \in 1 .. k |-> 0]

\* the operators below state what their operands are before they use them, so
\* that an operand is evaluated before the operation on it begins
IsBits(bits) == bits \in Seq({0, 1})
IsDouble(x) == Len(x.bits) = Precision /\ x.exp \in Int

\* the w binary digits of v < 2^w
FixedBits(v, w) == [i \in 1 .. w |-> (v \div 2^(w - i)) % 2]

\* the binary digits of n >= 0
BitsOf(n) ==
    IF n = 0 THEN <<0>>
    ELSE FixedBits(n, CHOOSE w \in 1 .. 31 : n \div 2^(w - 1) = 1)

RECURSIVE BitsValue(_)
\* the number a short digit string denotes
BitsValue(bits) ==
    LET len == Len(bits)
        half == len \div 2
    IN  IF len = 0 THEN 0
        ELSE IF len = 1 THEN bits[1]
        ELSE BitsValue(SubSeq(bits, 1, half)) * 2^(len - half)
               + BitsValue(SubSeq(bits, half + 1, len))

StripLeadingZeros(bits) ==
    LET ones == { i \in 1 .. Len(bits) : bits[i] = 1 } IN
    IF ones = {} THEN <<>>
    ELSE SubSeq(bits, CHOOSE i \in ones : \A j \in ones : i <= j, Len(bits))

\* -1, 0 or 1 as a is below, equal to or above b, for digit strings of one length
LexSign(a, b) ==
    LET differ == { i \in 1 .. Len(a) : a[i] # b[i] }
        first == CHOOSE i \in differ : \A j \in differ : i <= j
    IN  IF differ = {} THEN 0 ELSE IF a[first] < b[first] THEN -1 ELSE 1

\* -1, 0 or 1 as the natural number a is below, equal to or above b
CompareBits(a, b) ==
    LET x == StripLeadingZeros(a)
        y == StripLeadingZeros(b)
    IN  IF Len(x) < Len(y) THEN -1
        ELSE IF Len(x) > Len(y) THEN 1
        ELSE LexSign(x, y)

\* bits + 1, one digit longer when every digit was 1
IncBits(bits) ==
    LET zeros == { i \in 1 .. Len(bits) : bits[i] = 0 }
        last == CHOOSE i \in zeros : \A j \in zeros : j <= i
    IN  IF zeros = {} THEN <<1>> \o Zeros(Len(bits))
        ELSE [i \in 1 .. Len(bits) |->
                 IF i < last THEN bits[i] ELSE IF i = last THEN 1 ELSE 0]

RECURSIVE MulBits(_, _, _)
\* bits * d + carry, for d and carry below 2^15
MulBits(bits, d, carry) ==
    LET len == Len(bits)
        w == IF len < LimbBits THEN len ELSE LimbBits
        t == BitsValue(SubSeq(bits, len - w + 1, len)) * d + carry
    IN  IF len = 0 THEN (IF carry = 0 THEN <<>> ELSE BitsOf(carry))
        ELSE MulBits(SubSeq(bits, 1, len - w), d, t \div 2^w) \o FixedBits(t % 2^w, w)

\* a - b for digit strings of one length with a >= b: digit i borrows when
\* the digits after it denote less in a than in b
SubBits(a, b) ==
    LET len == Len(a)
        differ == { i \in 1 .. len : a[i] # b[i] }
        borrow == [i \in 1 .. len |->
                      LET after == { j \in differ : j > i } IN
                      IF after = {} THEN 0
                      ELSE IF a[CHOOSE j \in after : \A m \in after : j <= m] = 0
                      THEN 1 ELSE 0]
    IN  [i \in 1 .. len |-> (2 + a[i] - b[i] - borrow[i]) % 2]

\* a digit string of length k denoting what bits denotes
PadLeft(bits, k) == Zeros(k - Len(bits)) \o bits

\* the next binary digit of r / n, then twice the remainder, for digit strings
\* with r < 2 * n
DivideStep(r, n) ==
    LET len == Len(n) + 1 IN
    CASE IsBits(r) ->
    IF CompareBits(r, n) >= 0
    THEN [digits |-> <<1>>,
          rest |-> StripLeadingZeros(SubBits(PadLeft(r, len), PadLeft(n, len))) \o <<0>>]
    ELSE [digits |-> <<0>>, rest |-> StripLeadingZeros(r) \o <<0>>]

MinInt(a, b) == IF a < b THEN a ELSE b

\* no further digit of a division that has come as far as s
NoDigits(s) == [digits |-> <<>>, rest |-> s.rest]

RECURSIVE DivideBits(_, _, _)
\* the next k >= 1 binary digits of r / n, then twice the remainder; the digits
\* are produced in four runs, which keeps the evaluation shallow
DivideBits(r, n, k) ==
    LET run == (k + 3) \div 4
        a == DivideBits(r, n, run)
        b == IF k > run THEN DivideBits(a.rest, n, MinInt(run, k - run)) ELSE NoDigits(a)
        c == IF k > 2 * run THEN DivideBits(b.rest, n, MinInt(run, k - 2 * run)) ELSE NoDigits(b)
        d == IF k > 3 * run THEN DivideBits(c.rest, n, k - 3 * run) ELSE NoDigits(c)
    IN  IF k = 1 THEN DivideStep(r, n)
        ELSE CASE IsBits(a.rest) /\ IsBits(b.rest) /\ IsBits(c.rest) /\ IsBits(d.rest) ->
             [digits |-> a.digits \o b.digits \o c.digits \o d.digits, rest |-> d.rest]

\* the double with the leading digits kept of a number whose leading digit has
\* weight 2^exp, rounded up or not
Rounded(kept, exp, up) ==
    LET bits == IF up THEN IncBits(kept) ELSE kept IN
    IF Len(bits) > Precision
    THEN [bits |-> SubSeq(bits, 1, Precision), exp |-> exp + 1]
    ELSE [bits |-> bits, exp |-> exp]

\* the double nearest to a / b, for digit strings of two numbers >= 1
FloatDivBits(a, b) ==
    CASE IsBits(a) /\ IsBits(b) ->
    LET x == StripLeadingZeros(a)
        y == StripLeadingZeros(b)
        len == MaxInt(Len(x), Len(y))
        top == x \o Zeros(len - Len(x))
        low == y \o Zeros(len - Len(y))
        short == CompareBits(top, low) < 0
        d == DivideBits(IF short THEN top \o <<0>> ELSE top, low, Precision)
        sign == CompareBits(d.rest, low)
        up == sign > 0 \/ (sign = 0 /\ d.digits[Precision] = 1)
    IN  CASE IsBits(d.digits) /\ up \in BOOLEAN ->
        Rounded(d.digits, (Len(x) - Len(y)) - (IF short THEN 1 ELSE 0), up)

\* the double nearest to b / n, for integers b >= 1 and n >= 1
FloatDiv(b, n) == FloatDivBits(BitsOf(b), BitsOf(n))

\* the double nearest to x * d, for a double x and an integer d with 1 <= d < 2^15
FloatMul(x, d) ==
    CASE IsDouble(x) ->
    LET product == MulBits(x.bits, d, 0)
        extra == Len(product) - Precision
        kept == SubSeq(product, 1, Precision)
        dropped == BitsValue(SubSeq(product, Precision + 1, Len(product)))
        half == IF extra = 0 THEN 0 ELSE 2^(extra - 1)
        up == extra > 0 /\ (dropped > half \/ (dropped = half /\ kept[Precision] = 1))
    IN  CASE IsBits(product) /\ up \in BOOLEAN -> Rounded(kept, x.exp + extra, up)

\* the double nearest to x / y, for two doubles
FloatQuotient(x, y) ==
    CASE IsDouble(x) /\ IsDouble(y) ->
    LET q == FloatDivBits(x.bits, y.bits) IN
    CASE IsDouble(q) -> [bits |-> q.bits, exp |-> q.exp + (x.exp - y.exp)]

\* the double that is the integer v >= 1
FloatOf(v) == LET bits == BitsOf(v) IN
    [bits |-> bits \o Zeros(Precision - Len(bits)), exp |-> Len(bits) - 1]

\* -1, 0 or 1 as x * k is below, equal to or above v, for a double x, an integer
\* k with 1 <= k < 2^15 and a natural number v; the comparison is exact
ScaledCompare(x, k, v) ==
    CASE IsDouble(x) ->
    LET shift == (Precision - 1) - x.exp
        scaled == MulBits(x.bits, k, 0)
    IN  IF shift >= 0
        THEN CompareBits(scaled, BitsOf(v) \o Zeros(shift))
        ELSE CompareBits(scaled \o Zeros(-shift), BitsOf(v))

\* -1, 0 or 1 as the double x is below, equal to or above the natural number v
FloatCompare(x, v) == ScaledCompare(x, 1, v)

----------------------------------------------------------------------------
(* Values held by `entries` and by the entries slot.  TypeScript types are  *)
(* erased at run time, so `entries` holds whatever JSON.parse returned: a   *)
(* value [t, items] whose t is "array" only when it really is an array.     *)

Array(items) == [t |-> "array", items |-> items]
NonArray(t) == [t |-> t, items |-> <<>>]

\* JSON.stringify writes a non-finite number as null
JsonNumber(n) == IF n.k \in {"inf", "nan"} THEN Null ELSE n

JsonEntry(e) == [e EXCEPT !.amount = JsonNumber(e.amount)]

\* JSON.parse(JSON.stringify(value)): the value the written text denotes
JsonStringify(value) ==
    [value EXCEPT !.items = [i \in 1 .. Len(value.items) |-> JsonEntry(value.items[i])]]

(* localStorage.  The entries slot is [s, value]: s = "absent", "empty" (the *)
(* empty string), "garbage" (text JSON.parse rejects), "json" (text that     *)
(* denotes value) or "unreadable" (getItem and setItem throw).  The budget   *)
(* slot is [s, text] with s = "absent", "text" or "unreadable".              *)
(* The page runs in a browser: the branches taken when `window` is          *)
(* undefined (server rendering) are not part of the model.                   *)

EntriesSlot(kind, value) == [s |-> kind, value |-> value]
BudgetSlot(kind, text) == [s |-> kind, text |-> text]

DefaultBudget == 4500

loadEntries(store) ==
    LET stored == store.entries IN
    IF stored.s = "unreadable" THEN Array(<<>>)
    ELSE IF stored.s \in {"absent", "empty"} THEN Array(<<>>)
    ELSE IF stored.s = "garbage" THEN Array(<<>>)
    ELSE stored.value

saveEntries(store, value, writable) ==
    IF writable /\ store.entries.s # "unreadable"
    THEN [store EXCEPT !.entries = EntriesSlot("json", JsonStringify(value))]
    ELSE store

loadBudget(store) ==
    LET stored == store.budget IN
    IF stored.s = "unreadable" THEN Kr(DefaultBudget)
    ELSE IF stored.s = "absent" \/ stored.text = <<>> THEN Kr(DefaultBudget)
    ELSE ToNumber(stored.text)

saveBudget(store, b, writable) ==
    IF writable /\ store.budget.s # "unreadable"
    THEN [store EXCEPT !.budget = BudgetSlot("text", NumberToString(b))]
    ELSE store

----------------------------------------------------------------------------
(* Derived statistics *)

RECURSIVE SumAmounts(_, _)
\* items.filter(type).reduce((sum, entry) => sum + entry.amount, 0)
SumAmounts(items, type) ==
    IF items = <<>> THEN Num(0)
    ELSE LET rest == SumAmounts(SubSeq(items, 1, Len(items) - 1), type)
             last == items[Len(items)]
         IN  IF last.type = type THEN Add(rest, last.amount) ELSE rest

essentialTotal(ents) == SumAmounts(ents.items, "essential")
skipTotal(ents) == SumAmounts(ents.items, "skip")

\* budget - essentialTotal + skipTotal, the headroom not floored at 0
savedAmountUnfloored(ents, b) == Add(Sub(b, essentialTotal(ents)), skipTotal(ents))

savedAmount(ents, b) ==
    Add(MathMax(Sub(b, essentialTotal(ents)), Num(0)), skipTotal(ents))

totals(ents, b) ==
    [essentialTotal |-> essentialTotal(ents),
     skipTotal |-> skipTotal(ents),
     savedAmount |-> savedAmount(ents, b)]

----------------------------------------------------------------------------
(* The pacing figures of `totals`.  pacing gives each figure the value its  *)
(* expression has in real arithmetic, as a quotient n / d of thousandths    *)
(* of a krone; the double the code computes differs from it by the rounding *)
(* of one division and one multiplication.  budgetTargetDouble is that      *)
(* double itself, for the places where the code compares it.                *)

\* x / d for a number x and an integer d >= 1
Ratio(x, d) ==
    LET a == Operand(x) IN
    [k |-> a.k, n |-> a.v, d |-> IF a.k = "num" THEN d ELSE 1]

\* q * m for an integer m >= 1
Times(q, m) == IF q.k = "num" THEN [q EXCEPT !.n = @ * m] ELSE q

\* q - x for a number x
Minus(q, x) ==
    LET a == Operand(x) IN
    IF q.k = "nan" \/ a.k = "nan" THEN Ratio(NaN, 1)
    ELSE IF q.k = "inf" /\ a.k = "inf" THEN (IF q.n = a.v THEN Ratio(NaN, 1) ELSE q)
    ELSE IF q.k = "inf" THEN q
    ELSE IF a.k = "inf" THEN Ratio(Inf(-a.v), 1)
    ELSE [q EXCEPT !.n = @ - a.v * q.d]

\* essentials.length
CountEssentials(ents) == Cardinality({ i \in 1 .. Len(ents.items) : ents.items[i].type = "essential" })

activeDay(meta) == IF meta.isActive THEN MaxInt(meta.dayOfMonth, 1) ELSE 1

\* dailyAllowance alone, not multiplied by the day
budgetTargetUnscaled(b, meta) ==
    IF meta.isActive THEN Ratio(b, meta.daysInMonth) ELSE Ratio(Num(0), 1)

budgetTargetSoFar(b, meta) ==
    IF meta.isActive THEN Times(Ratio(b, meta.daysInMonth), activeDay(meta))
    ELSE Ratio(Num(0), 1)

pacing(ents, b, meta) ==
    [dailyAllowance |-> Ratio(b, meta.daysInMonth),
     averageSpend |->
         IF CountEssentials(ents) # 0
         THEN Ratio(essentialTotal(ents), MaxInt(activeDay(meta), 1))
         ELSE Ratio(Num(0), 1),
     budgetTargetSoFar |-> budgetTargetSoFar(b, meta),
     budgetDelta |-> Minus(budgetTargetSoFar(b, meta), essentialTotal(ents))]

\* the double a positive amount is
FloatOfNum(n) == FloatDiv(n.v, 1000)

\* dailyAllowance * activeDay as the code computes it, for a budget > 0
budgetTargetDouble(b, meta) ==
    LET ofBudget == FloatOfNum(b) IN
    CASE IsDouble(ofBudget) ->
    LET dailyAllowance == FloatQuotient(ofBudget, FloatOf(meta.daysInMonth)) IN
    CASE IsDouble(dailyAllowance) -> FloatMul(dailyAllowance, activeDay(meta))

----------------------------------------------------------------------------
(* The progress bar of the budget card *)

\* Math.max(totals.budgetTargetSoFar || budget, budget), for a budget > 0:
\* which of the two it is, and its value
barDenominator(b, meta) ==
    LET ofBudget == FloatOfNum(b)
        target == budgetTargetDouble(b, meta)
    IN  CASE b.k = "num" /\ b.v > 0 /\ IsDouble(ofBudget) ->
        IF ~meta.isActive THEN [is |-> "budget", x |-> ofBudget]
        ELSE CASE IsDouble(target) ->
             IF ScaledCompare(target, 1000, b.v) > 0
             THEN [is |-> "budgetTargetSoFar", x |-> target]
             ELSE [is |-> "budget", x |-> ofBudget]

\* Number(p.toFixed(0)) for a double 0 < p < 100: the nearest integer, the
\* larger one when two are as near
toFixed0(p) ==
    CASE IsDouble(p) ->
    IF p.exp < -1 THEN 0
    ELSE BitsValue(SubSeq(p.bits, 1, p.exp + 1)) + p.bits[p.exp + 2]

\* the width Math.min(100, (essentialTotal / denominator) * 100).toFixed(0) over
\* a denominator x > 0, for a total that is not negative
widthOver(total, x) ==
    LET ofTotal == FloatOfNum(total) IN
    IF total.k = "inf" THEN 100
    ELSE IF total.v = 0 THEN 0
    ELSE CASE IsDouble(ofTotal) ->
         LET ratio == FloatQuotient(ofTotal, x) IN
         CASE IsDouble(ratio) ->
         LET p == FloatMul(ratio, 100) IN
         CASE IsDouble(p) -> IF FloatCompare(p, 100) >= 0 THEN 100 ELSE toFixed0(p)

\* the bar over the budget alone
barWidthOverBudget(ents, b) ==
    LET ofBudget == FloatOfNum(b) IN
    CASE IsDouble(ofBudget) -> widthOver(essentialTotal(ents), ofBudget)

barWidth(ents, b, meta) ==
    LET denominator == barDenominator(b, meta) IN
    CASE IsDouble(denominator.x) -> widthOver(essentialTotal(ents), denominator.x)

----------------------------------------------------------------------------
(* The two motivational feeds.  A text shown on the page is a sequence of   *)
(* string pieces, so that the template literal of fetchQuote is a           *)
(* concatenation; a JavaScript value read from a response is [t, s].        *)

Undefined == [t |-> "undefined", s |-> "undefined"]
JsNull == [t |-> "null", s |-> "null"]
Str(s) == [t |-> "string", s |-> s]

\* v == null, the test of ?. and ??
Nullish(v) == v.t \in {"undefined", "null"}

\* !!v
Truthy(v) == v.t = "string" /\ v.s # ""

AdvicePlaceholder == <<"Henter motiverende raad...">>
QuotePlaceholder == <<"Henter inspirerende citat...">>

fallbackAdvice ==
    << <<"Hold fokus - hver krone taeller.">>,
       <<"Planlaeg dine maaltider for at undgaa impulskoeb.">>,
       <<"Gem kvitteringer og gennemgaa dem regelmaessigt.">>,
       <<"Fejre smaa sejre holder dig motiveret.">> >>

fallbackQuotes ==
    << <<"Sparsommelighed er en dyd.">>,
       <<"Hver krone sparet er en krone tjent.">>,
       <<"Disciplin er noeglen til finansiel frihed.">>,
       <<"Smaa besparelser bliver til store resultater.">> >>

\* Math.floor(Math.random() * list.length), counted from 1
RandomIndexes(list) == 1 .. Len(list)

\* how a fetch ends: fetch() rejects, the status is not ok, response.json()
\* rejects, or a JSON document arrives.  data says whether the document is an
\* object, slip whether its slip member is one, and the other fields are the
\* members read from it.
Outcome(kind, data, slip, adviceText, content, author) ==
    [kind |-> kind, data |-> data, slip |-> slip, advice |-> adviceText,
     content |-> content, author |-> author]

Failures ==
    { Outcome(kind, "null", "undefined", Undefined, Undefined, Undefined) :
          kind \in {"rejected", "not ok", "unparseable"} }

AdviceOutcomes ==
    Failures
    \cup { Outcome("json", "object", "object", a, Undefined, Undefined) :
              a \in { Undefined, JsNull, Str(""), Str("Spar op.") } }
    \cup { Outcome("json", "object", "undefined", Undefined, Undefined, Undefined),
           Outcome("json", "null", "undefined", Undefined, Undefined, Undefined) }

QuoteOutcomes ==
    Failures
    \cup { Outcome("json", "object", "undefined", Undefined, c, a) :
              c \in { Undefined, Str(""), Str("Spar.") }, a \in { Undefined, Str("Anon") } }
    \cup { Outcome("json", "null", "undefined", Undefined, Undefined, Undefined) }

\* data?.slip?.advice
SlipAdvice(o) == IF o.data = "object" /\ o.slip = "object" THEN o.advice ELSE Undefined

\* data?.content
Content(o) == IF o.data = "object" THEN o.content ELSE Undefined

\* the text fetchAdvice sets
adviceShown(o, r) ==
    IF o.kind # "json" THEN fallbackAdvice[r]
    ELSE IF Nullish(SlipAdvice(o)) THEN fallbackAdvice[1]
    ELSE <<SlipAdvice(o).s>>

\* the text fetchQuote sets
quoteShown(o, r) ==
    IF o.kind # "json" THEN fallbackQuotes[r]
    ELSE IF Truthy(Content(o))
    THEN <<"\"", Content(o).s, "\" - ", o.author.s>>
    ELSE fallbackQuotes[1]

----------------------------------------------------------------------------
(* Inputs *)

\* what the user types into the amount and note fields of the two forms
EssentialAmountInputs ==
    { <<>>,
      <<"x">>,
      <<"-", "5">>,
      <<"0", ".", "0", "0", "4">>,
      <<"1", "9", "9", "9", ".", "9", "9", "6">>,
      InfinityChars }
EssentialNoteInputs == { <<>>, <<" ">>, <<" ", "a", " ">> }
SkipAmountInputs == { <<>>, <<"3", "0", "0">> }
SkipNoteInputs == { <<>>, <<"b">> }

\* the range input: min, max and step attributes
SliderMin == 1500
SliderMax == 12000
SliderStep == 100
SliderRange == { n \in SliderMin .. SliderMax : (n - SliderMin) % SliderStep = 0 }
\* the slider positions the model moves to
SliderPositions == { SliderMin }
SliderInputs == { NumberToString(Kr(n)) : n \in SliderPositions \cap SliderRange }

\* whether localStorage.setItem succeeds
Writable == { TRUE }

InvalidAmount == "Beloebet skal vaere et positivt tal."
MissingNote == "Tilfoej en kort note, saa du husker konteksten."
NoValidation == "null"

\* the instant of the session modelled by Spec: 10 February of the second year, 10:00
SessionInstants == { InstantAt(FirstYear + 1, 1, 10, 10) }

\* localStorage of a browser that never ran the page
FreshStorage ==
    [entries |-> EntriesSlot("absent", Array(<<>>)), budget |-> BudgetSlot("absent", <<>>)]

----------------------------------------------------------------------------
(* The component *)

\* state after the first render of Home, before its effects have run
InitWith(t, store) ==
    /\ now = t
    /\ challengeMeta = getChallengeMeta(t)
    /\ budget = Kr(DefaultBudget)
    /\ entries = Array(<<>>)
    /\ essentialAmount = <<>>
    /\ essentialNote = <<>>
    /\ skipAmount = <<>>
    /\ skipNote = <<>>
    /\ validation = NoValidation
    /\ storage = store
    /\ phase = "initial"
    /\ nextId = 0
    /\ advice = AdvicePlaceholder
    /\ quote = QuotePlaceholder
    /\ adviceLoading = FALSE
    /\ quoteLoading = FALSE
    /\ adviceRequest = "none"
    /\ quoteRequest = "none"

Init == \E t \in SessionInstants : InitWith(t, FreshStorage)

\* the effects of the first commit, then the render and the effects that the
\* state set by the load effect triggers
MountWith(writable) ==
    /\ phase = "initial"
    /\ LET loadedEntries == loadEntries(storage)
           loadedBudget == loadBudget(storage)
           \* the two save effects of the first commit see the first render's state
           afterFirst == saveBudget(saveEntries(storage, entries, writable), budget, writable)
           \* second render: totals calls entries.filter, which throws on a non-array
           renders == loadedEntries.t = "array"
           afterEntries == saveEntries(afterFirst, loadedEntries, writable)
           afterSecond ==
               IF loadedBudget # budget
               THEN saveBudget(afterEntries, loadedBudget, writable)
               ELSE afterEntries
       IN  /\ entries' = loadedEntries
           /\ budget' = loadedBudget
           /\ storage' = IF renders THEN afterSecond ELSE afterFirst
           /\ phase' = IF renders THEN "mounted" ELSE "crashed"
    \* fetchAdvice() and fetchQuote() of the load effect, up to their first await
    /\ adviceLoading' = TRUE
    /\ adviceRequest' = "in flight"
    /\ quoteLoading' = TRUE
    /\ quoteRequest' = "in flight"
    /\ UNCHANGED <<advice, quote>>
    /\ UNCHANGED <<now, challengeMeta, essentialAmount, essentialNote, skipAmount,
                   skipNote, validation, nextId>>

Mount == \E writable \in Writable : MountWith(writable)

\* onChange of the four form fields
TypeEssentialAmount(v) ==
    /\ phase = "mounted"
    /\ essentialAmount' = v
    /\ UNCHANGED <<feedVars, now, challengeMeta, budget, entries, essentialNote,
                   skipAmount, skipNote, validation, storage, phase, nextId>>

TypeEssentialNote(v) ==
    /\ phase = "mounted"
    /\ essentialNote' = v
    /\ UNCHANGED <<feedVars, now, challengeMeta, budget, entries, essentialAmount,
                   skipAmount, skipNote, validation, storage, phase, nextId>>

TypeSkipAmount(v) ==
    /\ phase = "mounted"
    /\ skipAmount' = v
    /\ UNCHANGED <<feedVars, now, challengeMeta, budget, entries, essentialAmount,
                   essentialNote, skipNote, validation, storage, phase, nextId>>

TypeSkipNote(v) ==
    /\ phase = "mounted"
    /\ skipNote' = v
    /\ UNCHANGED <<feedVars, now, challengeMeta, budget, entries, essentialAmount,
                   essentialNote, skipAmount, validation, storage, phase, nextId>>

\* the entry addEntry constructs
NewEntry(type, amount, trimmedNote) ==
    [id |-> nextId,
     amount |-> ToNumber(toFixed2(amount)),
     note |-> trimmedNote,
     type |-> type,
     createdAt |-> now]

\* [...prev, newEntry]
AppendInstead(newEntry, prev) == Array(prev.items \o <<newEntry>>)

\* [newEntry, ...prev]
Prepend(newEntry, prev) == Array(<<newEntry>> \o prev.items)

addEntry(type, amountInput, noteInput, writable) ==
    LET amount == ToNumber(amountInput)
        trimmedNote == trim(noteInput)
    IN  /\ phase = "mounted"
        /\ IF Falsy(amount) \/ LessEq(amount, Num(0))
           THEN /\ validation' = InvalidAmount
                /\ UNCHANGED <<entries, essentialAmount, essentialNote, skipAmount,
                               skipNote, storage, nextId>>
           ELSE IF trimmedNote = <<>>
           THEN /\ validation' = MissingNote
                /\ UNCHANGED <<entries, essentialAmount, essentialNote, skipAmount,
                               skipNote, storage, nextId>>
           ELSE /\ nextId < MaxIds
                /\ entries' = Prepend(NewEntry(type, amount, trimmedNote), entries)
                /\ nextId' = nextId + 1
                /\ validation' = NoValidation
                /\ IF type = "essential"
                   THEN /\ essentialAmount' = <<>>
                        /\ essentialNote' = <<>>
                        /\ UNCHANGED <<skipAmount, skipNote>>
                   ELSE /\ skipAmount' = <<>>
                        /\ skipNote' = <<>>
                        /\ UNCHANGED <<essentialAmount, essentialNote>>
                \* the save effect of the render that follows
                /\ storage' = saveEntries(storage, entries', writable)
        /\ UNCHANGED <<feedVars, now, challengeMeta, budget, phase>>

\* onSubmit of the two forms
SubmitEssential ==
    \E writable \in Writable : addEntry("essential", essentialAmount, essentialNote, writable)

SubmitSkip ==
    \E writable \in Writable : addEntry("skip", skipAmount, skipNote, writable)

\* a reset that does not ask: it clears whatever confirm() answers
resetMonthUnconfirmed(confirmed, writable) ==
    /\ phase = "mounted"
    /\ entries' = Array(<<>>)
    /\ essentialAmount' = <<>>
    /\ essentialNote' = <<>>
    /\ skipAmount' = <<>>
    /\ skipNote' = <<>>
    /\ validation' = NoValidation
    /\ storage' = saveEntries(saveEntries(storage, Array(<<>>), writable), entries', writable)
    /\ UNCHANGED <<feedVars, now, challengeMeta, budget, phase, nextId>>

resetMonth(confirmed, writable) ==
    /\ phase = "mounted"
    /\ IF confirmed
       THEN /\ entries' = Array(<<>>)
            /\ essentialAmount' = <<>>
            /\ essentialNote' = <<>>
            /\ skipAmount' = <<>>
            /\ skipNote' = <<>>
            /\ validation' = NoValidation
            \* saveEntries([]) in the handler, then the save effect of the render
            /\ storage' = saveEntries(saveEntries(storage, Array(<<>>), writable),
                                      entries', writable)
       ELSE UNCHANGED <<entries, essentialAmount, essentialNote, skipAmount, skipNote,
                        validation, storage>>
    /\ UNCHANGED <<feedVars, now, challengeMeta, budget, phase, nextId>>

ResetConfirmed == \E writable \in Writable : resetMonth(TRUE, writable)
ResetDeclined == \E writable \in Writable : resetMonth(FALSE, writable)

\* onChange of the budget slider: setBudget(Number(event.target.value))
SliderChange(value, writable) ==
    /\ phase = "mounted"
    /\ budget' = ToNumber(value)
    /\ storage' = IF budget' # budget THEN saveBudget(storage, budget', writable) ELSE storage
    /\ UNCHANGED <<feedVars, now, challengeMeta, entries, essentialAmount,
                   essentialNote, skipAmount, skipNote, validation, phase, nextId>>

Slide == \E value \in SliderInputs, writable \in Writable : SliderChange(value, writable)

Next ==
    \/ Mount
    \/ \E v \in EssentialAmountInputs : TypeEssentialAmount(v)
    \/ \E v \in EssentialNoteInputs : TypeEssentialNote(v)
    \/ \E v \in SkipAmountInputs : TypeSkipAmount(v)
    \/ \E v \in SkipNoteInputs : TypeSkipNote(v)
    \/ SubmitEssential
    \/ SubmitSkip
    \/ ResetConfirmed
    \/ ResetDeclined
    \/ Slide

Spec == Init /\ [][Next]_vars

----------------------------------------------------------------------------
(* The challenge window as a function of the clock: the page is opened at   *)
(* any instant, and rendered again at a later instant, at most              *)
(* MaxAdvanceHours after the previous render.                               *)

InitMeta == \E t \in Instants : InitWith(t, FreshStorage)

\* const challengeMeta = getChallengeMeta() at the top of Home
Render(t) ==
    /\ t > now
    /\ t <= now + MaxAdvanceHours
    /\ now' = t
    /\ challengeMeta' = getChallengeMeta(t)
    /\ UNCHANGED <<ledgerVars, feedVars>>

NextMeta == \E t \in Instants : Render(t)

SpecMeta == InitMeta /\ [][NextMeta]_vars

\* the calendar date of the clock
OnLastDayOfFebruary == getMonth(now) = 1 /\ getDate(now) = DaysInMonthOf(getFullYear(now), 1)
InFebruary == getMonth(now) = 1

\* C1: isActive is true exactly when the clock's calendar date lies in February
\* (1 February to the last day of February, whole days), and on the last day of
\* February, at any time of day, dayOfMonth = daysInMonth and daysLeft = 0.
C1_ActiveExactlyInFebruary ==
    /\ challengeMeta.isActive <=> InFebruary
    /\ OnLastDayOfFebruary =>
         /\ challengeMeta.isActive
         /\ challengeMeta.dayOfMonth = challengeMeta.daysInMonth
         /\ challengeMeta.daysLeft = 0

\* C2: the target year is the clock's year when its calendar date is on or before
\* the last day of February (any time of day), and the year after it otherwise;
\* on 1 March the year is the next one and the window is not active.
C2_TargetYear ==
    /\ challengeMeta.year =
         IF getMonth(now) <= 1 THEN getFullYear(now) ELSE getFullYear(now) + 1
    /\ (getMonth(now) = 2 /\ getDate(now) = 1) =>
         (challengeMeta.year = getFullYear(now) + 1 /\ ~challengeMeta.isActive)

----------------------------------------------------------------------------
(* The ledger *)

Entries == entries.items
IsWhiteSpaceOnly(s) == \A i \in 1 .. Len(s) : s[i] \in WhiteSpace

\* s is input with only leading and trailing white space removed
IsTrimOf(s, input) ==
    /\ s # <<>>
    /\ s[1] \notin WhiteSpace
    /\ s[Len(s)] \notin WhiteSpace
    /\ \E i \in 0 .. Len(input) :
         /\ i + Len(s) <= Len(input)
         /\ SubSeq(input, i + 1, i + Len(s)) = s
         /\ IsWhiteSpaceOnly(SubSeq(input, 1, i))
         /\ IsWhiteSpaceOnly(SubSeq(input, i + Len(s) + 1, Len(input)))

\* the amount typed is a number greater than 0 (finite or not)
ParsesPositive(input) ==
    LET p == ToNumber(input) IN (p.k = "num" /\ p.v > 0) \/ (p.k = "inf" /\ p.v = 1)

\* the amount typed is a positive finite number
ParsesPositiveFinite(input) == LET p == ToNumber(input) IN p.k = "num" /\ p.v > 0

\* n is the number p rounded to two decimals
IsRoundedTo2(n, p) ==
    IF p.k = "num"
    THEN n.k = "num" /\ n.v % 10 = 0 /\ n.v - p.v \in -5 .. 5
    ELSE n = p

\* the step puts a new entry of the given type, with the trimmed note and the
\* rounded amount, in front of the entries there were
AddsAtHead(type, amountInput, noteInput) ==
        /\ Len(entries'.items) = Len(Entries) + 1
        /\ Tail(entries'.items) = Entries
        /\ Head(entries'.items).type = type
        /\ IsTrimOf(Head(entries'.items).note, noteInput)
        /\ IsRoundedTo2(Head(entries'.items).amount, ToNumber(amountInput))

\* C3: addEntry with a parsed amount > 0 and a note that is non-empty after
\* trimming makes the new entry (given type, trimmed note, amount rounded to two
\* decimals) the head of entries and keeps the previous entries after it in order.
C3_AddEntryPrepends ==
    [][ /\ (~IsWhiteSpaceOnly(essentialNote) /\ ParsesPositive(essentialAmount)
              /\ SubmitEssential) =>
              AddsAtHead("essential", essentialAmount, essentialNote)
        /\ (~IsWhiteSpaceOnly(skipNote) /\ ParsesPositive(skipAmount) /\ SubmitSkip) =>
              AddsAtHead("skip", skipAmount, skipNote) ]_vars

\* three entries, the newest first, the head carrying a rounded amount and a trimmed note
C3_Witness ==
    /\ Len(Entries) = 3
    /\ Entries[1].id > Entries[2].id
    /\ Entries[2].id > Entries[3].id
    /\ Entries[1].amount = Kr(2000)
    /\ Entries[1].note = <<"a">>

\* C4: every entry in entries has amount > 0 and a non-empty trimmed note.
C4_EntriesPositive ==
    \A i \in 1 .. Len(Entries) :
        /\ Less(Num(0), Entries[i].amount)
        /\ Entries[i].note # <<>>
        /\ Entries[i].note[1] \notin WhiteSpace
        /\ Entries[i].note[Len(Entries[i].note)] \notin WhiteSpace

formVars == <<essentialAmount, essentialNote, skipAmount, skipNote>>

\* C5: addEntry with a raw amount that is not a positive finite number reports
\* InvalidAmount, leaves entries unchanged and does not clear the form inputs,
\* whatever the note is.
C5_InvalidAmountRejected ==
    [][ /\ (~ParsesPositiveFinite(essentialAmount) /\ SubmitEssential) =>
              (validation' = InvalidAmount /\ UNCHANGED <<entries, formVars>>)
        /\ (~ParsesPositiveFinite(skipAmount) /\ SubmitSkip) =>
              (validation' = InvalidAmount /\ UNCHANGED <<entries, formVars>>) ]_vars

\* C6: addEntry with a positive finite amount and a note that is empty or white
\* space only reports MissingNote, leaves entries unchanged and does not clear the
\* form inputs.
C6_MissingNoteRejected ==
    [][ /\ (IsWhiteSpaceOnly(essentialNote) /\ ParsesPositiveFinite(essentialAmount)
              /\ SubmitEssential) =>
              (validation' = MissingNote /\ UNCHANGED <<entries, formVars>>)
        /\ (IsWhiteSpaceOnly(skipNote) /\ ParsesPositiveFinite(skipAmount) /\ SubmitSkip) =>
              (validation' = MissingNote /\ UNCHANGED <<entries, formVars>>) ]_vars

\* MissingNote is shown for a form that still holds a positive amount and a blank,
\* non-empty note, next to an entry added before
C6_Witness ==
    /\ validation = MissingNote
    /\ ParsesPositiveFinite(essentialAmount)
    /\ essentialNote # <<>>
    /\ IsWhiteSpaceOnly(essentialNote)
    /\ Len(Entries) > 0

\* the state a confirmed reset leaves behind
IsReset ==
    /\ Entries = <<>>
    /\ essentialAmount = <<>>
    /\ essentialNote = <<>>
    /\ skipAmount = <<>>
    /\ skipNote = <<>>
    /\ validation = NoValidation
    /\ storage.entries.s = "json"
    /\ storage.entries.value.items = <<>>

\* C7: after a confirmed resetMonth entries is empty, essentialTotal = 0,
\* skipTotal = 0 and savedAmount = budget, the budget being unchanged; a second
\* reset changes nothing; a declined reset leaves entries, budget and the form
\* inputs unchanged.
C7_Reset ==
    [][ /\ ResetConfirmed =>
              /\ IsReset'
              /\ budget' = budget
              /\ totals(entries', budget').essentialTotal = Num(0)
              /\ totals(entries', budget').skipTotal = Num(0)
              /\ totals(entries', budget').savedAmount = budget
        /\ (ResetConfirmed /\ IsReset) => UNCHANGED vars
        /\ ResetDeclined => UNCHANGED <<entries, budget, formVars>> ]_vars

\* a reset has emptied a ledger to which entries had been added
C7_Witness == IsReset /\ nextId > 0 /\ phase = "mounted"

\* the finite part of the sum of the amounts of one type, and whether an amount
\* of that type is infinite
RECURSIVE FiniteSum(_, _)
FiniteSum(items, type) ==
    IF items = <<>> THEN 0
    ELSE (IF Head(items).type = type /\ Head(items).amount.k = "num"
          THEN Head(items).amount.v ELSE 0) + FiniteSum(Tail(items), type)

HasInfinite(items, type) ==
    \E i \in 1 .. Len(items) : items[i].type = type /\ items[i].amount.k = "inf"

\* max(budget - essentialTotal, 0) + skipTotal over the extended numbers
ExpectedSaved ==
    LET headroom ==
            IF HasInfinite(Entries, "essential") THEN 0
            ELSE MaxInt(budget.v - FiniteSum(Entries, "essential"), 0)
    IN  IF HasInfinite(Entries, "skip") THEN Inf(1)
        ELSE Num(headroom + FiniteSum(Entries, "skip"))

\* C8: savedAmount = max(budget - essentialTotal, 0) + skipTotal and is never
\* negative; when essentialTotal exceeds the budget it equals skipTotal, and with no
\* essentials, one skip of 300 and budget 4500 it is 4800.
C8_SavedAmount ==
    phase = "mounted" =>
        LET t == totals(entries, budget) IN
        /\ t.savedAmount = ExpectedSaved
        /\ ~Less(t.savedAmount, Num(0))
        /\ Less(budget, t.essentialTotal) => t.savedAmount = t.skipTotal
        /\ (t.essentialTotal = Num(0) /\ t.skipTotal = Kr(300) /\ budget = Kr(4500)) =>
              t.savedAmount = Kr(4800)

\* essentials of 2000 against a budget of 1500, and a skip of 300: 300 is saved
C8_Witness ==
    /\ phase = "mounted"
    /\ budget = Kr(1500)
    /\ totals(entries, budget).essentialTotal = Kr(2000)
    /\ totals(entries, budget).skipTotal = Kr(300)
    /\ totals(entries, budget).savedAmount = Kr(300)

----------------------------------------------------------------------------
(* Startup: the page is opened on a browser whose localStorage holds what a  *)
(* previous session, another program or the user left there.                 *)

\* an entry written by a previous session
PriorEntry ==
    [id |-> -1, amount |-> Kr(300), note |-> <<"b">>, type |-> "skip", createdAt |-> 0]

EntriesSlotCases ==
    { EntriesSlot("absent", Array(<<>>)),
      EntriesSlot("empty", Array(<<>>)),
      EntriesSlot("garbage", Array(<<>>)),
      EntriesSlot("json", Array(<<>>)),
      EntriesSlot("json", Array(<<PriorEntry>>)),
      EntriesSlot("json", NonArray("number")),
      EntriesSlot("json", NonArray("null")),
      EntriesSlot("json", NonArray("object")) }

BudgetSlotCases ==
    { BudgetSlot("absent", <<>>),
      BudgetSlot("text", <<>>),
      BudgetSlot("text", <<"6", "0", "0", "0">>),
      BudgetSlot("text", <<"9", "9">>),
      BudgetSlot("text", <<"x">>) }

StorageCases ==
    { [entries |-> e, budget |-> b] : e \in EntriesSlotCases, b \in BudgetSlotCases }
    \cup { [entries |-> EntriesSlot("unreadable", Array(<<>>)),
            budget |-> BudgetSlot("unreadable", <<>>)] }

StartupEssentialAmountInputs == { <<"1", "9", "9", "9", ".", "9", "9", "6">> }
StartupEssentialNoteInputs == { <<" ", "a", " ">> }

InitStartup == \E t \in SessionInstants, store \in StorageCases : InitWith(t, store)

NextStartup ==
    \/ Mount
    \/ \E v \in StartupEssentialAmountInputs : TypeEssentialAmount(v)
    \/ \E v \in StartupEssentialNoteInputs : TypeEssentialNote(v)
    \/ \E v \in SkipAmountInputs : TypeSkipAmount(v)
    \/ \E v \in SkipNoteInputs : TypeSkipNote(v)
    \/ SubmitEssential
    \/ SubmitSkip
    \/ ResetConfirmed
    \/ ResetDeclined
    \/ Slide

SpecStartup == InitStartup /\ [][NextStartup]_vars

\* what load is to return for a slot: the stored value when it is well formed (an
\* array of entries; a string that is a number), the documented default otherwise
WellFormedEntries(store) == store.entries.s = "json" /\ store.entries.value.t = "array"
WellFormedBudget(store) ==
    /\ store.budget.s = "text"
    /\ store.budget.text # <<>>
    /\ AllDigits(store.budget.text)

ExpectedEntries(store) ==
    IF WellFormedEntries(store) THEN store.entries.value ELSE Array(<<>>)
ExpectedBudget(store) ==
    IF WellFormedBudget(store) THEN Num(DigitsValue(store.budget.text) * 1000)
    ELSE Kr(DefaultBudget)

\* C9: at startup each slot loads as its decoded stored value when well formed and
\* as the default (no entries; 4500) when absent, unreadable or malformed; startup
\* does not crash, entries is an array and budget is a number.
C9_LoadFallsBack ==
    [][ Mount =>
          /\ phase' = "mounted"
          /\ entries'.t = "array"
          /\ budget'.k = "num"
          /\ entries' = ExpectedEntries(storage)
          /\ budget' = ExpectedBudget(storage) ]_vars

\* C10: in every reachable state the budget is a number within [1500, 12000].
C10_BudgetInRange ==
    /\ budget.k = "num"
    /\ budget.v >= SliderMin * 1000
    /\ budget.v <= SliderMax * 1000

----------------------------------------------------------------------------
(* The challenge window, continued *)

\* 1 February of the year the window reports
StartOfWindow == NewDate(challengeMeta.year, 1, 1)

OnJanuary31 == getMonth(now) = 0 /\ getDate(now) = 31

\* C11: when the window is not active and the clock is before 1 February of the
\* target year, daysUntilStart is the number of days from the clock to that
\* 1 February, rounded up; otherwise it is 0.  At any time of day on 31 January of
\* year Y the window is not active, daysUntilStart = 1 and the year is Y.
C11_DaysUntilStart ==
    /\ IF ~challengeMeta.isActive /\ now < StartOfWindow
       THEN /\ (challengeMeta.daysUntilStart - 1) * HoursPerDay < StartOfWindow - now
            /\ StartOfWindow - now <= challengeMeta.daysUntilStart * HoursPerDay
       ELSE challengeMeta.daysUntilStart = 0
    /\ OnJanuary31 =>
         /\ ~challengeMeta.isActive
         /\ challengeMeta.daysUntilStart = 1
         /\ challengeMeta.year = getFullYear(now)

\* 31 January, 10:00: fourteen hours before the start count as one day
C11_Witness ==
    /\ OnJanuary31
    /\ now % HoursPerDay = 10
    /\ challengeMeta.daysUntilStart = 1
    /\ ~challengeMeta.isActive

\* C16: the window is active or starts in at least one day, so the header never
\* shows "Challenge afsluttet".
C16_NeverEnded ==
    /\ challengeMeta.isActive \/ challengeMeta.daysUntilStart >= 1
    /\ headerStatus(challengeMeta) # "Challenge afsluttet"

\* after February the window reported is next year's, and it starts in the future
C16_Witness ==
    /\ getMonth(now) >= 2
    /\ ~challengeMeta.isActive
    /\ challengeMeta.year = getFullYear(now) + 1
    /\ challengeMeta.daysUntilStart >= 1
    /\ headerStatus(challengeMeta) = "Starter om"

----------------------------------------------------------------------------
(* The pacing figures and the progress bar: the page is opened before the   *)
(* window, inside it and on its last day, in every year of Years; the user  *)
(* moves the slider and records essentials.                                 *)

LastDayOfFebruary(y) == DaysInMonthOf(y, 1)

StatsInstants ==
    UNION { { InstantAt(y, 0, 31, 10),
              InstantAt(y, 1, 10, 10),
              InstantAt(y, 1, LastDayOfFebruary(y), 0) } : y \in Years }

StatsSliderPositions == { 1800, 2000 }
StatsSliderInputs == { NumberToString(Kr(n)) : n \in StatsSliderPositions \cap SliderRange }
StatsAmountInputs == { <<"1", "4", "0", "0">>, <<"9">> }
StatsNoteInputs == { <<"a">> }

InitStats == \E t \in StatsInstants : InitWith(t, FreshStorage)

SlideStats ==
    \E value \in StatsSliderInputs, writable \in Writable : SliderChange(value, writable)

NextStats ==
    \/ Mount
    \/ \E v \in StatsAmountInputs : TypeEssentialAmount(v)
    \/ \E v \in StatsNoteInputs : TypeEssentialNote(v)
    \/ SubmitEssential
    \/ ResetConfirmed
    \/ SlideStats

SpecStats == InitStats /\ [][NextStats]_vars

Pacing == pacing(entries, budget, challengeMeta)
SpentSoFar == essentialTotal(entries)

\* whether the quotient q lies between lo and hi thousandths of a krone
Between(q, lo, hi) == q.k = "num" /\ lo * q.d <= q.n /\ q.n <= hi * q.d

\* C12: budgetTargetSoFar is (budget / daysInMonth) * max(dayOfMonth, 1) while
\* the window is active and 0 while it is not, and budgetDelta is
\* budgetTargetSoFar - essentialTotal, positive exactly when less was spent than
\* the target; with budget 4500, 28 days, day 10 and 1400 spent they are
\* about 1607.14 and 207.14
C12_PacingFigures ==
    LET target == Pacing.budgetTargetSoFar
        delta == Pacing.budgetDelta
        days == challengeMeta.daysInMonth
        scaled == budget.v * MaxInt(challengeMeta.dayOfMonth, 1)
    IN  (budget.k = "num" /\ SpentSoFar.k = "num") =>
        /\ target.k = "num" /\ delta.k = "num"
        /\ IF challengeMeta.isActive
           THEN /\ target.n \div target.d = scaled \div days
                /\ (target.n % target.d) * days = (scaled % days) * target.d
           ELSE target.n = 0
        /\ delta.d = target.d
        /\ delta.n + SpentSoFar.v * target.d = target.n
        /\ delta.n > 0 <=> SpentSoFar.v * target.d < target.n
        /\ ( /\ budget = Kr(4500)
             /\ challengeMeta.isActive
             /\ days = 28
             /\ challengeMeta.dayOfMonth = 10
             /\ SpentSoFar = Kr(1400) )
           => Between(target, 1607140, 1607150) /\ Between(delta, 207140, 207150)

C12_Witness ==
    /\ budget = Kr(4500)
    /\ challengeMeta.isActive
    /\ challengeMeta.daysInMonth = 28
    /\ challengeMeta.dayOfMonth = 10
    /\ SpentSoFar = Kr(1400)
    /\ Between(Pacing.budgetDelta, 207140, 207150)

\* C17: with a positive budget, budgetTargetSoFar is at most the budget, the
\* denominator of the progress bar is the budget itself, and the width shown
\* lies in 0 .. 100 and is the width over the budget alone, whatever the day
C17_BarOverBudget ==
    (phase = "mounted" /\ budget.k = "num" /\ budget.v > 0) =>
        /\ challengeMeta.isActive =>
               ScaledCompare(budgetTargetDouble(budget, challengeMeta), 1000, budget.v) <= 0
        /\ barDenominator(budget, challengeMeta).is = "budget"
        /\ barWidth(entries, budget, challengeMeta) \in 0 .. 100
        /\ barWidth(entries, budget, challengeMeta) = barWidthOverBudget(entries, budget)

----------------------------------------------------------------------------
(* The motivational feeds: a fetch is started by the load effect or by the  *)
(* refresh button, and ends when the promise of fetch() settles.  Nothing   *)
(* in fetchAdvice or fetchQuote bounds the wait for the remote host.        *)

\* the refresh button of the advice card, disabled while adviceLoading
RefreshAdvice ==
    /\ phase = "mounted"
    /\ ~adviceLoading
    /\ adviceLoading' = TRUE
    /\ adviceRequest' = "in flight"
    /\ UNCHANGED <<ledgerVars, now, challengeMeta, advice, quote, quoteLoading, quoteRequest>>

\* the refresh button of the quote card, disabled while quoteLoading
RefreshQuote ==
    /\ phase = "mounted"
    /\ ~quoteLoading
    /\ quoteLoading' = TRUE
    /\ quoteRequest' = "in flight"
    /\ UNCHANGED <<ledgerVars, now, challengeMeta, advice, quote, adviceLoading, adviceRequest>>

\* the rest of fetchAdvice, from the first await to the end of finally
AdviceSettles(o, r) ==
    /\ adviceRequest = "in flight"
    /\ advice' = adviceShown(o, r)
    /\ adviceLoading' = FALSE
    /\ adviceRequest' = "none"
    /\ UNCHANGED <<ledgerVars, now, challengeMeta, quote, quoteLoading, quoteRequest>>

\* the rest of fetchQuote, from the first await to the end of finally
QuoteSettles(o, r) ==
    /\ quoteRequest = "in flight"
    /\ quote' = quoteShown(o, r)
    /\ quoteLoading' = FALSE
    /\ quoteRequest' = "none"
    /\ UNCHANGED <<ledgerVars, now, challengeMeta, advice, adviceLoading, adviceRequest>>

\* the remote host never answers: the promise of fetch() stays pending
AdviceHangs ==
    /\ adviceRequest = "in flight"
    /\ adviceRequest' = "unanswered"
    /\ UNCHANGED <<ledgerVars, now, challengeMeta, advice, quote, adviceLoading, quoteLoading,
                   quoteRequest>>

QuoteHangs ==
    /\ quoteRequest = "in flight"
    /\ quoteRequest' = "unanswered"
    /\ UNCHANGED <<ledgerVars, now, challengeMeta, advice, quote, adviceLoading, quoteLoading,
                   adviceRequest>>

AdviceEnds == \E o \in AdviceOutcomes, r \in RandomIndexes(fallbackAdvice) : AdviceSettles(o, r)
QuoteEnds == \E o \in QuoteOutcomes, r \in RandomIndexes(fallbackQuotes) : QuoteSettles(o, r)

NextFeeds ==
    \/ Mount
    \/ RefreshAdvice
    \/ RefreshQuote
    \/ AdviceEnds
    \/ QuoteEnds
    \/ AdviceHangs
    \/ QuoteHangs
    \/ SlideStats

SpecFeeds == Init /\ [][NextFeeds]_vars

\* the event loop runs the load effect and every continuation whose promise
\* has settled; whether the remote host answers is not up to the page
SpecFeedsFair ==
    /\ SpecFeeds
    /\ WF_vars(Mount)
    /\ WF_vars(AdviceEnds)
    /\ WF_vars(QuoteEnds)

Texts(list) == { list[i] : i \in 1 .. Len(list) }

\* a required field of the response is missing
AdviceFieldMissing(o) == Nullish(SlipAdvice(o))
QuoteFieldMissing(o) == Nullish(Content(o)) \/ o.data # "object" \/ Nullish(o.author)

Composed(content, author) == <<"\"", content, "\" - ", author>>

\* C13: a fetch that ends in a network failure, a status that is not ok or a
\* response with a required field missing (the advice text; the content or the
\* author of the quote) leaves one of the feed's fallback strings on display;
\* any other text on display comes from a response with every required field,
\* the quote in the form "<quote>" - <author>
C13_FeedFallback ==
    [][ /\ \A o \in AdviceOutcomes, r \in RandomIndexes(fallbackAdvice) :
             AdviceSettles(o, r) =>
                 /\ (o.kind # "json" \/ AdviceFieldMissing(o)) => advice' \in Texts(fallbackAdvice)
                 /\ advice' \notin Texts(fallbackAdvice) =>
                        /\ o.kind = "json" /\ ~AdviceFieldMissing(o)
                        /\ advice' = <<o.advice.s>>
        /\ \A o \in QuoteOutcomes, r \in RandomIndexes(fallbackQuotes) :
             QuoteSettles(o, r) =>
                 /\ (o.kind # "json" \/ QuoteFieldMissing(o)) => quote' \in Texts(fallbackQuotes)
                 /\ quote' \notin Texts(fallbackQuotes) =>
                        /\ o.kind = "json" /\ ~QuoteFieldMissing(o)
                        /\ quote' = Composed(o.content.s, o.author.s) ]_vars

\* the end of one feed's fetch, or its hanging
AdviceFetchStep == adviceRequest = "in flight" /\ adviceRequest' # "in flight"
QuoteFetchStep == quoteRequest = "in flight" /\ quoteRequest' # "in flight"

\* C14: every started fetch ends, whether the remote call succeeds, fails or
\* never answers: the loading flag of the feed returns to false with fetched
\* content or a fallback string on display; and the end or the hanging of one
\* feed's fetch changes neither the other feed's text or loading flag nor the
\* ledger
C14_FetchResolves ==
    /\ adviceLoading ~> (~adviceLoading /\ advice # AdvicePlaceholder)
    /\ quoteLoading ~> (~quoteLoading /\ quote # QuotePlaceholder)
    /\ [][ /\ AdviceFetchStep => UNCHANGED <<quote, quoteLoading, ledgerVars>>
           /\ QuoteFetchStep => UNCHANGED <<advice, adviceLoading, ledgerVars>> ]_vars

----------------------------------------------------------------------------
(* Persistence across a session: localStorage holds well-formed entries and *)
(* a well-formed budget when the page opens, and setItem may fail.          *)

InitPersist ==
    \E t \in SessionInstants,
       e \in { Array(<<>>), Array(<<PriorEntry>>) },
       b \in { <<"4", "5", "0", "0">>, <<"6", "0", "0", "0">> } :
        InitWith(t, [entries |-> EntriesSlot("json", e), budget |-> BudgetSlot("text", b)])

NextPersist ==
    \/ \E writable \in BOOLEAN : MountWith(writable)
    \/ \E v \in StartupEssentialAmountInputs \cup { InfinityChars } : TypeEssentialAmount(v)
    \/ \E v \in StartupEssentialNoteInputs : TypeEssentialNote(v)
    \/ \E writable \in BOOLEAN : addEntry("essential", essentialAmount, essentialNote, writable)
    \/ \E writable \in BOOLEAN : resetMonth(TRUE, writable)
    \/ \E value \in StatsSliderInputs, writable \in BOOLEAN : SliderChange(value, writable)

SpecPersist == InitPersist /\ [][NextPersist]_vars

\* the entries and the budget that the two slots denote
StoredEntries(store) == store.entries.value
StoredBudget(store) == Num(DigitsValue(store.budget.text) * 1000)

\* C15: startup loses nothing: with well-formed entries E and budget B stored,
\* after the mount effects and the render they trigger the ledger in memory is
\* (E, B) and both slots hold E and B again; after every later mutation the
\* slot written holds what is in memory whenever the write succeeds, and the
\* mutation is in place in memory whether or not the write succeeds
C15_NoDataLost ==
    [][ /\ \A writable \in BOOLEAN :
             MountWith(writable) =>
                 /\ entries' = StoredEntries(storage)
                 /\ budget' = StoredBudget(storage)
                 /\ StoredEntries(storage') = StoredEntries(storage)
                 /\ StoredBudget(storage') = StoredBudget(storage)
        /\ \A writable \in BOOLEAN :
             (addEntry("essential", essentialAmount, essentialNote, writable)
                  /\ validation' = NoValidation) =>
                 /\ Len(entries'.items) = Len(entries.items) + 1
                 /\ Tail(entries'.items) = entries.items
                 /\ writable => StoredEntries(storage') = entries'
        /\ \A writable \in BOOLEAN :
             resetMonth(TRUE, writable) =>
                 /\ entries' = Array(<<>>)
                 /\ writable => StoredEntries(storage') = entries'
        /\ \A value \in StatsSliderInputs, writable \in BOOLEAN :
             SliderChange(value, writable) =>
                 /\ budget' = ToNumber(value)
                 /\ writable => StoredBudget(storage') = budget' ]_vars

====
